---- MODULE Spec2Model ----
(***************************************************************************)
(* Model of the eKartoteka Home Assistant integration:                     *)
(*   - eKartotekaAPI (ekartoteka_api.py): token handling, login(), _get()  *)
(*     and the data-fetch operations, as a call stack per worker thread;   *)
(*   - EkartotekaCoordinator._async_update_data (coordinator.py): one      *)
(*     refresh cycle of a house and the snapshot it publishes;             *)
(*   - the native_value projections of the sensor entities.                *)
(***************************************************************************)
EXTENDS Integers, Sequences, FiniteSets, TLC

\* ------------------------------------------------------------------------
\* Bounds of the model
\* ------------------------------------------------------------------------
\* Distinct non-empty token strings the server can hand out.
NTok == 2
\* Longest call stack a worker thread may build before the interpreter
\* raises RecursionError (Python's recursion limit, scaled down).
MaxStack == 6
\* Longest apartment list, sensor list and yearly-summary list the server returns.
MaxApts == 2
MaxSensors == 2
MaxRows == 2
\* Longest house list the server returns.
MaxHouses == 2
\* Longest unit code ("jm") the server sends, in characters.
MaxUnitLen == 3

\* ------------------------------------------------------------------------
\* Values
\* ------------------------------------------------------------------------
\* Python's None, as returned by dict.get for an absent key.
None == -1

\* HTTP status codes the server can answer with.
Statuses == {200, 401, 500}

\* Worker threads of the executor the blocking API calls run in.
Threads == {1, 2}

\* A token field: 0 is the empty string "", 1..NTok are token strings.
Tokens == 0..NTok

VARIABLES
    auth_token,  \* eKartotekaAPI.auth_token
    token,       \* eKartotekaAPI.token
    id_kli,      \* eKartotekaAPI.id_kli
    id_gru,      \* eKartotekaAPI.id_gru
    stack,       \* per thread: the call stack of API frames, innermost last
    ret,         \* per thread: value returned by the frame that just returned
    result,      \* per thread: "idle", "running", "ok", "raise" of the top-level call
    opname,      \* per thread: the top-level call, "login" or "fetch"
    value,       \* per thread: what the top-level call returned
    nreq,        \* per thread: HTTP requests sent by the top-level call so far
    absent,      \* per thread: what the responses consumed by the call lacked
    prevLoginOk  \* per thread: the call before this one was a login() that returned

apiVars == <<auth_token, token, id_kli, id_gru, stack, ret, result, opname,
             value, nreq, absent, prevLoginOk>>

VARIABLES
    server           \* the remote service: whether it is the well-behaved one of
                     \* the concurrency analysis, and the tokens it has expired

serverVars == <<server>>

VARIABLES
    data,            \* coordinator.data: <<>> is None, <<s>> the snapshot s
    cpc,             \* where _async_update_data is
    apartment_list,  \* the IdLok of each apartment entry (None: no IdLok)
    sensors,         \* the id_el_op of each sensor entry (None: no id_el_op)
    i,               \* position of `for apt in apartment_list`
    j,               \* position of `for s in sensors`
    meters,          \* local meters: (apartment id, sensor id) -> reading
    last_invoice,    \* local last_invoice: line-item name -> entry
    invoices,        \* the period list of the apartment being processed
    invoice_entries_list,  \* the line items of its last invoice
    inv_list,        \* the yearly summary rows
    k,               \* position of `for inv in inv_list`
    meters_invoice_summary,  \* local summary: sensor id -> row
    last,            \* the API call made last and whether it raised
    readings,        \* per key, the reading list the server returned for it
    step5            \* how step 5 (the inner try) ended

VARIABLES
    shown            \* what the last read of an entity's native_value gave

VARIABLES
    spc,             \* where async_setup_entry / _async_build_entities_for_house is
    houses,          \* the IdADo of each house entry (None: no IdADo)
    house,           \* position of `for house in houses`
    entities,        \* local entities of the build of the current house
    all_entities,    \* local all_entities of the setup
    registered,      \* <<>>: async_add_entities not called; <<l>>: called with l
    built            \* per house built so far: how its build ended, what it returned

setupVars == <<spc, houses, house, entities, all_entities, registered, built>>

VARIABLES
    jm,              \* the "jm" of a sensor entry: <<>> is None, <<s>> the string s
    unit,            \* the "unit" of sensor_meta_by_id, given to the meter entity
    upc,             \* "meta": entry not read yet, "entity": meta built, "done": mapped
    device_class,    \* EkartotekaMeterSensor._attr_device_class
    native_unit      \* ._attr_native_unit_of_measurement: <<>> is None, <<s>> is s

unitVars == <<jm, unit, upc, device_class, native_unit>>

cycleVars == <<data, cpc, apartment_list, sensors, i, j, meters, last_invoice,
               invoices, invoice_entries_list, inv_list, k, meters_invoice_summary, last, readings, step5>>

\* ------------------------------------------------------------------------
\* Response bodies
\* ------------------------------------------------------------------------
\* A parsed JSON body, reduced to what the client reads from it:
\*   list: shape of "results" ("empty", "noid" = first element lacks its id,
\*         "ok", "nokey" = no "results" key, "na" = not a list endpoint)
\*   kli : details' id_kli;  tok: the body's "token" (0 = absent or empty)
NoBody == [list |-> "na", kli |-> None, tok |-> 0]

Bodies(url) ==
    CASE url = "login"    -> {[NoBody EXCEPT !.tok = tk] : tk \in Tokens}
      [] url = "accounts" -> {[NoBody EXCEPT !.list = l] : l \in {"empty", "noid", "ok"}}
      [] url = "details"  -> {[NoBody EXCEPT !.kli = c, !.tok = tk] :
                                 c \in {None, 7}, tk \in Tokens}
      [] url = "groups"   -> {[NoBody EXCEPT !.list = l] : l \in {"empty", "noid", "ok"}}
      [] url = "data"     -> {[NoBody EXCEPT !.list = l] : l \in {"ok", "nokey"}}

\* What the server answers: a body only with status 200.
Responses(url) ==
    {[status |-> 200, body |-> b] : b \in Bodies(url)}
        \cup {[status |-> s, body |-> NoBody] : s \in Statuses \ {200}}

\* The well-behaved service: it answers 401 to a request whose bearer token is
\* empty or expired and to no other, and 200 with a complete body otherwise;
\* the tokens it hands out are tokens it has not expired.
ValidTokens == (1..NTok) \ server.expired

HonestBodies(url) ==
    CASE url = "login"    -> {[NoBody EXCEPT !.tok = tk] : tk \in ValidTokens}
      [] url = "accounts" -> {[NoBody EXCEPT !.list = "ok"]}
      [] url = "details"  -> {[NoBody EXCEPT !.kli = 7, !.tok = tk] : tk \in ValidTokens}
      [] url = "groups"   -> {[NoBody EXCEPT !.list = "ok"]}
      [] url = "data"     -> {[NoBody EXCEPT !.list = "ok"]}

HonestResponses(url, hdr) ==
    IF url # "login" /\ hdr \notin ValidTokens
    THEN {[status |-> 401, body |-> NoBody]}
    ELSE {[status |-> 200, body |-> b] : b \in HonestBodies(url)}

\* what the service answers to a request for url carrying the bearer token hdr
Answers(url, hdr) ==
    IF server.honest THEN HonestResponses(url, hdr) ELSE Responses(url)

\* the service expires a token it has handed out (it keeps one to hand out)
Expire(tk) ==
    /\ server.honest
    /\ tk \in ValidTokens
    /\ Cardinality(ValidTokens) > 1
    /\ server' = [server EXCEPT !.expired = @ \cup {tk}]

\* the service of the other analyses: any answer to any request
AnyServer == [honest |-> FALSE, expired |-> {}]
\* the well-behaved service, before it has expired any token
HonestServer == [honest |-> TRUE, expired |-> {}]

\* ------------------------------------------------------------------------
\* Call stack
\* ------------------------------------------------------------------------
Frame(fn, pc, url, acc) ==
    [fn |-> fn, pc |-> pc, url |-> url, acc |-> acc,
     status |-> 0, body |-> NoBody, hdr |-> 0, sends |-> 0, gru |-> None, kli |-> None]

Top(t) == stack[t][Len(stack[t])]
Running(t, fn, pc) ==
    /\ Len(stack[t]) > 0
    /\ Top(t).fn = fn
    /\ Top(t).pc = pc

Pop(s) == SubSeq(s, 1, Len(s) - 1)
SetTop(s, f) == [s EXCEPT ![Len(s)] = f]

\* `return v` of the innermost frame of thread t
Return(t, v) ==
    /\ stack' = [stack EXCEPT ![t] = Pop(@)]
    /\ ret' = [ret EXCEPT ![t] = v]
    /\ result' = [result EXCEPT ![t] = IF Len(stack[t]) = 1 THEN "ok" ELSE @]
    /\ value' = [value EXCEPT ![t] = IF Len(stack[t]) = 1 THEN v.list ELSE @]

\* `raise`: no frame of the client catches, the exception unwinds the whole stack
Raise(t) ==
    /\ stack' = [stack EXCEPT ![t] = <<>>]
    /\ ret' = [ret EXCEPT ![t] = NoBody]
    /\ result' = [result EXCEPT ![t] = "raise"]
    /\ value' = [value EXCEPT ![t] = "exc"]

Note(t, what) == absent' = [absent EXCEPT ![t] = @ \cup what]

BearerToken(acc) == IF acc THEN token ELSE auth_token

\* a call: the caller's frame becomes `caller`, the callee's goes on top;
\* a stack that is full makes the interpreter raise RecursionError instead
Invoke(t, caller, callee) ==
    IF Len(stack[t]) < MaxStack
    THEN /\ stack' = [stack EXCEPT ![t] = Append(SetTop(@, caller), callee)]
         /\ UNCHANGED <<ret, result, value>>
    ELSE Raise(t)

\* the innermost frame goes on, no call and no return
Goto(t, f) ==
    /\ stack' = [stack EXCEPT ![t] = SetTop(@, f)]
    /\ UNCHANGED <<ret, result, value>>

\* ------------------------------------------------------------------------
\* eKartotekaAPI.login
\* ------------------------------------------------------------------------
\* LoginCheck without the early return: login() always runs its sequence
LoginCheckNoShortcut(t) ==
    /\ Running(t, "login", "check")
    /\ Goto(t, [Top(t) EXCEPT !.pc = "post"])
    /\ UNCHANGED <<auth_token, token, id_kli, id_gru, opname, nreq, absent, prevLoginOk>>

\* if self.token and self.auth_token: return True
LoginCheck(t) ==
    /\ Running(t, "login", "check")
    /\ IF token # 0 /\ auth_token # 0
       THEN Return(t, NoBody)
       ELSE Goto(t, [Top(t) EXCEPT !.pc = "post"])
    /\ UNCHANGED <<auth_token, token, id_kli, id_gru, opname, nreq, absent, prevLoginOk>>

\* 1) POST the credentials, keep the auth token, call _get(accounts_list)
LoginPost(t) ==
    /\ Running(t, "login", "post")
    /\ nreq' = [nreq EXCEPT ![t] = @ + 1]
    /\ \E r \in Answers("login", 0) :
          IF r.status # 200
          THEN /\ Raise(t)
               /\ Note(t, {"status"})
               /\ UNCHANGED auth_token
          ELSE /\ auth_token' = r.body.tok
               /\ IF r.body.tok = 0
                  THEN Raise(t) /\ Note(t, {"token"})
                  ELSE /\ Invoke(t, [Top(t) EXCEPT !.pc = "accounts"],
                                 Frame("get", "send", "accounts", FALSE))
                       /\ UNCHANGED absent
    /\ UNCHANGED <<token, id_kli, id_gru, opname, prevLoginOk>>

\* 2) the accounts list came back: first result's id, call _get(account_details)
LoginAccounts(t) ==
    /\ Running(t, "login", "accounts")
    /\ CASE ret[t].list = "ok" ->
               /\ Invoke(t, [Top(t) EXCEPT !.pc = "details"],
                         Frame("get", "send", "details", FALSE))
               /\ UNCHANGED absent
         [] ret[t].list = "noid" -> Raise(t) /\ Note(t, {"id"})
         [] OTHER -> Raise(t) /\ Note(t, {"accounts"})
    /\ UNCHANGED <<auth_token, token, id_kli, id_gru, opname, nreq, prevLoginOk>>

\* 3) the account details came back: id_kli and the account token are stored,
\*    then _get(groups) is called with the account token
LoginDetails(t) ==
    /\ Running(t, "login", "details")
    /\ id_kli' = ret[t].kli
    /\ token' = ret[t].tok
    /\ IF ret[t].tok = 0
       THEN Raise(t) /\ Note(t, {"acctoken"} \cup IF ret[t].kli = None THEN {"id_kli"} ELSE {})
       ELSE /\ Invoke(t, [Top(t) EXCEPT !.pc = "groups", !.kli = ret[t].kli],
                      Frame("get", "send", "groups", TRUE))
            /\ Note(t, IF ret[t].kli = None THEN {"id_kli"} ELSE {})
    /\ UNCHANGED <<auth_token, id_gru, opname, nreq, prevLoginOk>>

\* 4) the groups came back: id_gru is stored (None included), then checked
LoginGroups(t) ==
    /\ Running(t, "login", "groups")
    /\ CASE ret[t].list = "ok" ->
               /\ id_gru' = 3
               /\ Return(t, NoBody)
               /\ UNCHANGED absent
         [] ret[t].list = "noid" ->
               /\ id_gru' = None
               /\ Raise(t)
               /\ Note(t, {"IdGru"})
         [] OTHER ->
               /\ UNCHANGED id_gru
               /\ Raise(t)
               /\ Note(t, {"groups"})
    /\ UNCHANGED <<auth_token, token, id_kli, opname, nreq, prevLoginOk>>

\* ------------------------------------------------------------------------
\* eKartotekaAPI._get
\* ------------------------------------------------------------------------
\* one session.get with the bearer header built from the current token
Send(t, pc, n) ==
    /\ nreq' = [nreq EXCEPT ![t] = @ + 1]
    /\ \E r \in Answers(Top(t).url, BearerToken(Top(t).acc)) :
          Goto(t, [Top(t) EXCEPT !.pc = pc, !.status = r.status, !.body = r.body,
                                 !.hdr = BearerToken(Top(t).acc), !.sends = n])
    /\ UNCHANGED <<auth_token, token, id_kli, id_gru, opname, absent, prevLoginOk>>

\* the first request
GetSend(t) ==
    /\ Running(t, "get", "send")
    /\ Send(t, "check", 1)

\* GetFinal as a loop: a 401 after the retry goes through the re-login again
GetFinalLoop(t) ==
    /\ Running(t, "get", "final")
    /\ IF Top(t).status = 401
       THEN /\ Goto(t, [Top(t) EXCEPT !.pc = "check"])
            /\ UNCHANGED absent
       ELSE IF Top(t).status # 200
            THEN Raise(t) /\ Note(t, {"status"})
            ELSE Return(t, Top(t).body) /\ UNCHANGED absent
    /\ UNCHANGED <<auth_token, token, id_kli, id_gru, opname, nreq, prevLoginOk>>

\* the last check of _get: anything but 200 raises, 200 returns the body
GetFinal(t) ==
    /\ Running(t, "get", "final")
    /\ IF Top(t).status # 200
       THEN Raise(t) /\ Note(t, {"status"})
       ELSE Return(t, Top(t).body) /\ UNCHANGED absent
    /\ UNCHANGED <<auth_token, token, id_kli, id_gru, opname, nreq, prevLoginOk>>

\* the first response: 401 clears both tokens and calls login();
\* otherwise the same last check as after the retry
GetCheck(t) ==
    /\ Running(t, "get", "check")
    /\ IF Top(t).status = 401
       THEN /\ auth_token' = 0
            /\ token' = 0
            /\ Invoke(t, [Top(t) EXCEPT !.pc = "retry"], Frame("login", "check", "", FALSE))
            /\ UNCHANGED absent
       ELSE /\ UNCHANGED <<auth_token, token>>
            /\ IF Top(t).status # 200
               THEN Raise(t) /\ Note(t, {"status"})
               ELSE Return(t, Top(t).body) /\ UNCHANGED absent
    /\ UNCHANGED <<id_kli, id_gru, opname, nreq, prevLoginOk>>

\* login() returned: the same URL once more, with headers from the new token
GetRetry(t) ==
    /\ Running(t, "get", "retry")
    /\ Send(t, "final", 2)

\* ------------------------------------------------------------------------
\* The data-fetch operations (houseList, apartmentList, houseSensorList, ...):
\* login(), format the URL from id_gru / id_kli, _get with the account token,
\* return data.get("results", [])
\* ------------------------------------------------------------------------
FetchLogin(t) ==
    /\ Running(t, "fetch", "login")
    /\ Invoke(t, [Top(t) EXCEPT !.pc = "url"], Frame("login", "check", "", FALSE))
    /\ UNCHANGED <<auth_token, token, id_kli, id_gru, opname, nreq, absent, prevLoginOk>>

FetchGet(t) ==
    /\ Running(t, "fetch", "url")
    /\ Invoke(t, [Top(t) EXCEPT !.pc = "ret", !.gru = id_gru, !.kli = id_kli],
              Frame("get", "send", "data", TRUE))
    /\ UNCHANGED <<auth_token, token, id_kli, id_gru, opname, nreq, absent, prevLoginOk>>

FetchRet(t) ==
    /\ Running(t, "fetch", "ret")
    /\ Return(t, [ret[t] EXCEPT !.list = IF @ = "nokey" THEN "empty" ELSE @])
    /\ UNCHANGED <<auth_token, token, id_kli, id_gru, opname, nreq, absent, prevLoginOk>>

\* a caller starts login() or a data-fetch operation on thread t
StartCall(t, op) ==
    /\ stack[t] = <<>>
    /\ stack' = [stack EXCEPT ![t] =
                    <<IF op = "login" THEN Frame("login", "check", "", FALSE)
                                      ELSE Frame("fetch", "login", "", FALSE)>>]
    /\ result' = [result EXCEPT ![t] = "running"]
    /\ opname' = [opname EXCEPT ![t] = op]
    /\ nreq' = [nreq EXCEPT ![t] = 0]
    /\ absent' = [absent EXCEPT ![t] = {}]
    /\ prevLoginOk' = [prevLoginOk EXCEPT ![t] = result[t] = "ok" /\ opname[t] = "login"]
    /\ ret' = [ret EXCEPT ![t] = NoBody]
    /\ value' = [value EXCEPT ![t] = "none"]
    /\ UNCHANGED <<auth_token, token, id_kli, id_gru>>

ApiStep(t) ==
    \/ LoginCheck(t)
    \/ LoginPost(t)
    \/ LoginAccounts(t)
    \/ LoginDetails(t)
    \/ LoginGroups(t)
    \/ GetSend(t)
    \/ GetCheck(t)
    \/ GetRetry(t)
    \/ GetFinal(t)
    \/ FetchLogin(t)
    \/ FetchGet(t)
    \/ FetchRet(t)

\* ------------------------------------------------------------------------
\* EkartotekaCoordinator._async_update_data
\* ------------------------------------------------------------------------
\* dict.get(key): None when the key is absent
Get(d, key) == IF key \in DOMAIN d THEN d[key] ELSE None
\* d[key] = v on a dict
Put(d, key, v) == [x \in DOMAIN d \cup {key} |-> IF x = key THEN v ELSE d[x]]
EmptyDict == [x \in {} |-> None]

\* The lists of at most n entries whose entry at position p either has the
\* identifier base + p or lacks its identifier (None): the server lists every
\* apartment, sensor and summary row once.
IdLists(n, base) ==
    UNION {{l \in [1..m -> {None} \cup {base + p : p \in 1..m}] :
               \A p \in 1..m : l[p] \in {None, base + p}} : m \in 0..n}

\* What a data-fetch operation of the client gives its caller: it raises, or
\* it returns the body's "results" list.
ApiResults(lists) ==
    {[raised |-> TRUE, results |-> <<>>]}
        \cup {[raised |-> FALSE, results |-> l] : l \in lists}

\* Inputs: what the server's lists can hold.
AptId(p) == p
SensorId(p) == 9 + p
AptLists == IdLists(MaxApts, AptId(0))
SensorLists == IdLists(MaxSensors, SensorId(0))
R1 == [stan |-> 125, typ |-> "A", data |-> 20240101]
R2 == [stan |-> 130, typ |-> "B", data |-> 20240201]
ReadingLists == {<<>>, <<R1, R2>>}
P1 == [IdNal |-> 5, DataOd |-> 20240101, DataDo |-> 20240131, Stan |-> 1]
PNoId == [DataOd |-> 20231201, DataDo |-> 20231231, Stan |-> 0]
P2 == [IdNal |-> 6, DataOd |-> 20240201, DataDo |-> 20240229, Stan |-> 0]
PeriodLists == {<<>>, <<PNoId, P1>>, <<P1, PNoId>>}
\* ... and with a second apartment's period, of other dates and paid flag
PeriodListsTwo == PeriodLists \cup {<<P2>>}
Rent == [Nazwa |-> "rent", Nalicz |-> 100]
Water == [Nazwa |-> "water", Nalicz |-> 40]
Rent2 == [Nazwa |-> "rent", Nalicz |-> 120]
InvoiceEntryLists == {<<>>, <<Rent>>, <<Water, Rent>>}
\* ... and with a rent of another amount
InvoiceEntryListsTwo == InvoiceEntryLists \cup {<<Rent2>>}
Row(p) == [id_el_op |-> SensorId(p), Nazwa |-> "meter", WynikRozliczenia |-> 50 + p]
RowNoId(p) == [Nazwa |-> "meter", WynikRozliczenia |-> 50 + p]
RowLists ==
    {[p \in DOMAIN l |-> IF l[p] = None THEN RowNoId(p) ELSE Row(p)] :
        l \in IdLists(MaxRows, SensorId(0))}
Cost == [zuzycieFaktyczne |-> 9, zuzycieFaktyczneJM |-> 3]
CostLists == {<<>>, <<Cost>>, <<[DataOd |-> 20240101]>>}

\* the dict the cycle returns
Snapshot ==
    [meters_invoice_summary |-> meters_invoice_summary,
     meters |-> meters,
     last_invoice |-> last_invoice]

\* IndexEntries that keeps the entry a name already has: first apartment wins
RECURSIVE IndexEntriesKeepFirst(_, _, _, _)
IndexEntriesKeepFirst(idx, entries, period, apt_id) ==
    IF entries = <<>>
    THEN idx
    ELSE LET e == Head(entries)
             entry == [Nazwa |-> e.Nazwa, Nalicz |-> e.Nalicz,
                       start_date |-> Get(period, "DataOd"),
                       end_date |-> Get(period, "DataDo"),
                       paid |-> Get(period, "Stan"),
                       apartment_id |-> apt_id]
         IN IndexEntriesKeepFirst(IF Get(e, "Nazwa") \in DOMAIN idx
                                  THEN idx
                                  ELSE Put(idx, Get(e, "Nazwa"), entry),
                                  Tail(entries), period, apt_id)

\* an apartment's invoice entries, annotated and indexed by name, in order
RECURSIVE IndexEntries(_, _, _, _)
IndexEntries(idx, entries, period, apt_id) ==
    IF entries = <<>>
    THEN idx
    ELSE LET e == Head(entries)
             entry == [Nazwa |-> e.Nazwa, Nalicz |-> e.Nalicz,
                       start_date |-> Get(period, "DataOd"),
                       end_date |-> Get(period, "DataDo"),
                       paid |-> Get(period, "Stan"),
                       apartment_id |-> apt_id]
         IN IndexEntries(Put(idx, Get(e, "Nazwa"), entry), Tail(entries), period, apt_id)

\* the locals of a cycle that has not begun, or whose frame is gone
NoLocals ==
    /\ apartment_list' = <<>>
    /\ sensors' = <<>>
    /\ i' = 1
    /\ j' = 1
    /\ meters' = EmptyDict
    /\ last_invoice' = EmptyDict
    /\ invoices' = <<>>
    /\ invoice_entries_list' = <<>>
    /\ inv_list' = <<>>
    /\ k' = 1
    /\ meters_invoice_summary' = EmptyDict
    /\ readings' = EmptyDict
    /\ step5' = "none"

\* Fail that lets the host see what the aborted cycle had built so far
FailPublishing(op) ==
    /\ cpc' = "failed"
    /\ last' = [op |-> op, raised |-> TRUE]
    /\ NoLocals
    /\ data' = <<[meters_invoice_summary |-> meters_invoice_summary,
                  meters |-> meters, last_invoice |-> last_invoice]>>

\* `except Exception as err: raise UpdateFailed`: the cycle fails, its local
\* dicts are dropped with its frame and coordinator.data stays what it was
Fail(op) ==
    /\ cpc' = "failed"
    /\ last' = [op |-> op, raised |-> TRUE]
    /\ NoLocals
    /\ UNCHANGED data

\* a refresh begins (first refresh at setup, later the scheduler's)
StartCycle ==
    /\ cpc \in {"idle", "done", "failed"}
    /\ cpc' = "apartments"
    /\ NoLocals
    /\ last' = [op |-> "none", raised |-> FALSE]
    /\ UNCHANGED data

\* apartment_list = await apartmentList(house_id)
FetchApartments(r) ==
    /\ cpc = "apartments"
    /\ IF r.raised
       THEN Fail("apartmentList")
       ELSE /\ apartment_list' = r.results
            /\ cpc' = "sensors"
            /\ last' = [op |-> "apartmentList", raised |-> FALSE]
            /\ UNCHANGED <<data, sensors, i, j, meters, last_invoice, invoices, invoice_entries_list,
                           inv_list, k, meters_invoice_summary, readings, step5>>

\* sensors = await houseSensorList(house_id); the dicts start empty
FetchSensors(r) ==
    /\ cpc = "sensors"
    /\ IF r.raised
       THEN Fail("houseSensorList")
       ELSE /\ sensors' = r.results
            /\ cpc' = "apt"
            /\ last' = [op |-> "houseSensorList", raised |-> FALSE]
            /\ UNCHANGED <<data, apartment_list, i, j, meters, last_invoice, invoices, invoice_entries_list,
                           inv_list, k, meters_invoice_summary, readings, step5>>

\* AptLoop with `break` for `continue`: an entry without IdLok ends the loop
AptLoopBreak ==
    /\ cpc = "apt"
    /\ IF i > Len(apartment_list) \/ apartment_list[i] = None
       THEN cpc' = "summary" /\ UNCHANGED <<i, j>>
       ELSE cpc' = "sensor" /\ j' = 1 /\ UNCHANGED i
    /\ invoices' = <<>>
    /\ invoice_entries_list' = <<>>
    /\ UNCHANGED <<data, apartment_list, sensors, meters, last_invoice,
                   inv_list, k, meters_invoice_summary, last, readings, step5>>

\* for apt in apartment_list: an entry without IdLok is skipped
\* (the previous apartment's `invoices` is dead here: it is assigned again
\* before it is read, and the model forgets it)
AptLoop ==
    /\ cpc = "apt"
    /\ IF i > Len(apartment_list)
       THEN cpc' = "summary" /\ UNCHANGED <<i, j>>
       ELSE IF apartment_list[i] = None
            THEN cpc' = "apt" /\ i' = i + 1 /\ UNCHANGED j
            ELSE cpc' = "sensor" /\ j' = 1 /\ UNCHANGED i
    /\ invoices' = <<>>
    /\ invoice_entries_list' = <<>>
    /\ UNCHANGED <<data, apartment_list, sensors, meters, last_invoice,
                   inv_list, k, meters_invoice_summary, last, readings, step5>>

\* for s in sensors: an entry without id_el_op is skipped
SensorLoop ==
    /\ cpc = "sensor"
    /\ IF j > Len(sensors)
       THEN cpc' = "invoices" /\ UNCHANGED j
       ELSE IF sensors[j] = None
            THEN cpc' = "sensor" /\ j' = j + 1
            ELSE cpc' = "value" /\ UNCHANGED j
    /\ UNCHANGED <<data, apartment_list, sensors, i, meters, last_invoice, invoices, invoice_entries_list,
                   inv_list, k, meters_invoice_summary, last, readings, step5>>

\* Reading that takes the last element of the list, not the first
ReadingLast(values) ==
    [value |-> IF values # <<>> THEN Get(values[Len(values)], "stan") ELSE None,
     type |-> IF values # <<>> THEN Get(values[Len(values)], "typ") ELSE None,
     read_date |-> IF values # <<>> THEN Get(values[Len(values)], "data") ELSE None]

\* what the cycle stores for a reading list
Reading(values) ==
    [value |-> IF values # <<>> THEN Get(values[1], "stan") ELSE None,
     type |-> IF values # <<>> THEN Get(values[1], "typ") ELSE None,
     read_date |-> IF values # <<>> THEN Get(values[1], "data") ELSE None]

\* values = await houseSensorValue(apt_id, sensor_id); meters[(apt, sensor)] = ...
FetchValue(r) ==
    /\ cpc = "value"
    /\ IF r.raised
       THEN Fail("houseSensorValue")
       ELSE LET key == <<apartment_list[i], sensors[j]>>
            IN /\ meters' = Put(meters, key, Reading(r.results))
               /\ readings' = Put(readings, key, r.results)
               /\ j' = j + 1
               /\ cpc' = "sensor"
               /\ last' = [op |-> "houseSensorValue", raised |-> FALSE]
               /\ UNCHANGED <<data, apartment_list, sensors, i, last_invoice, invoices, invoice_entries_list,
                              inv_list, k, meters_invoice_summary, step5>>

\* FetchInvoices that asks for the details whenever there is a period
FetchInvoicesAnyPeriod(r) ==
    /\ cpc = "invoices"
    /\ IF r.raised
       THEN Fail("houseInvoicesList")
       ELSE /\ invoices' = r.results
            /\ UNCHANGED invoice_entries_list
            /\ last' = [op |-> "houseInvoicesList", raised |-> FALSE]
            /\ IF r.results # <<>>
               THEN cpc' = "details" /\ UNCHANGED i
               ELSE cpc' = "apt" /\ i' = i + 1
            /\ UNCHANGED <<data, apartment_list, sensors, j, meters, last_invoice,
                           inv_list, k, meters_invoice_summary, readings, step5>>

\* invoices = await houseInvoicesList(house_id, apt_id);
\* if invoices and invoices[0].get("IdNal", None): go on to the details
FetchInvoices(r) ==
    /\ cpc = "invoices"
    /\ IF r.raised
       THEN Fail("houseInvoicesList")
       ELSE /\ invoices' = r.results
            /\ UNCHANGED invoice_entries_list
            /\ last' = [op |-> "houseInvoicesList", raised |-> FALSE]
            /\ IF r.results # <<>> /\ Get(r.results[1], "IdNal") \notin {None, 0}
               THEN cpc' = "details" /\ UNCHANGED i
               ELSE cpc' = "apt" /\ i' = i + 1
            /\ UNCHANGED <<data, apartment_list, sensors, j, meters, last_invoice,
                           inv_list, k, meters_invoice_summary, readings, step5>>

\* invoice_entries_list = await invoiceDetails(apt_id, last_invoice_id);
\* every entry is annotated and stored under its name
FetchDetails(r) ==
    /\ cpc = "details"
    /\ IF r.raised
       THEN Fail("invoiceDetails")
       ELSE /\ last_invoice' =
                   IndexEntries(last_invoice, r.results, invoices[1], apartment_list[i])
            /\ invoice_entries_list' = r.results
            /\ i' = i + 1
            /\ cpc' = "apt"
            /\ last' = [op |-> "invoiceDetails", raised |-> FALSE]
            /\ UNCHANGED <<data, apartment_list, sensors, j, meters, invoices,
                           inv_list, k, meters_invoice_summary, readings, step5>>

\* FetchSummary outside any inner try: a raise fails the cycle
FetchSummaryNoTry(r) ==
    /\ cpc = "summary"
    /\ IF r.raised
       THEN Fail("houseAnalysisSummary")
       ELSE /\ inv_list' = r.results
            /\ last' = [op |-> "houseAnalysisSummary", raised |-> FALSE]
            /\ IF r.results = <<>>
               THEN step5' = "ok" /\ cpc' = "return"
               ELSE step5' = "none" /\ cpc' = "cost"
            /\ k' = 1
            /\ UNCHANGED <<data, apartment_list, sensors, i, j, meters, last_invoice,
                           invoices, invoice_entries_list, meters_invoice_summary, readings>>

\* step 5, inside the inner try: inv_list = await houseAnalysisSummary(house_id)
FetchSummary(r) ==
    /\ cpc = "summary"
    /\ last' = [op |-> "houseAnalysisSummary", raised |-> r.raised]
    /\ IF r.raised
       THEN /\ step5' = "summary raised"
            /\ cpc' = "return"
            /\ UNCHANGED inv_list
       ELSE /\ inv_list' = r.results
            /\ IF r.results = <<>>
               THEN step5' = "ok" /\ cpc' = "return"
               ELSE step5' = "none" /\ cpc' = "cost"
    /\ k' = 1
    /\ UNCHANGED <<data, apartment_list, sensors, i, j, meters, last_invoice, invoices, invoice_entries_list,
                   meters_invoice_summary, readings>>

\* for inv in inv_list: a row without "id_el_op" makes inv["id_el_op"] raise
\* KeyError before any request; the inner except ends step 5
CostKeyError ==
    /\ cpc = "cost"
    /\ "id_el_op" \notin DOMAIN inv_list[k]
    /\ step5' = "row without id"
    /\ cpc' = "return"
    /\ UNCHANGED <<data, apartment_list, sensors, i, j, meters, last_invoice, invoices, invoice_entries_list,
                   inv_list, k, meters_invoice_summary, last, readings>>

\* sensor_cost = await houseSensorCost(house_id, inv["id_el_op"]); the cost
\* fields are merged in when the list is not empty; the row is indexed
FetchCost(r) ==
    /\ cpc = "cost"
    /\ "id_el_op" \in DOMAIN inv_list[k]
    /\ last' = [op |-> "houseSensorCost", raised |-> r.raised]
    /\ LET inv == inv_list[k]
           more == k < Len(inv_list)
       IN IF r.raised
          THEN /\ step5' = "cost raised"
               /\ cpc' = "return"
               /\ UNCHANGED <<k, meters_invoice_summary>>
          ELSE IF r.results # <<>> /\ ~ {"zuzycieFaktyczne", "zuzycieFaktyczneJM"}
                                            \subseteq DOMAIN r.results[1]
               THEN /\ step5' = "cost without fields"
                    /\ cpc' = "return"
                    /\ UNCHANGED <<k, meters_invoice_summary>>
               ELSE /\ meters_invoice_summary' =
                          Put(meters_invoice_summary, inv.id_el_op,
                              IF r.results # <<>>
                              THEN Put(Put(inv, "cost", r.results[1].zuzycieFaktyczne),
                                       "amount", r.results[1].zuzycieFaktyczneJM)
                              ELSE inv)
                    /\ k' = k + 1
                    /\ cpc' = IF more THEN "cost" ELSE "return"
                    /\ step5' = IF more THEN "none" ELSE "ok"
    /\ UNCHANGED <<data, apartment_list, sensors, i, j, meters, last_invoice, invoices, invoice_entries_list,
                   inv_list, readings>>

\* return {...}: the cycle ends and the host stores the dict in coordinator.data
ReturnSnapshot ==
    /\ cpc = "return"
    /\ data' = <<Snapshot>>
    /\ cpc' = "done"
    /\ i' = 1
    /\ j' = 1
    /\ k' = 1
    /\ invoices' = <<>>
    /\ invoice_entries_list' = <<>>
    /\ inv_list' = <<>>
    /\ UNCHANGED <<apartment_list, sensors, meters, last_invoice,
                   meters_invoice_summary, last, readings, step5>>

\* EkartotekaCoordinator.__init__: no data yet, no cycle running
NoCycle ==
    /\ cpc = "idle"
    /\ apartment_list = <<>>
    /\ sensors = <<>>
    /\ i = 1
    /\ j = 1
    /\ meters = EmptyDict
    /\ last_invoice = EmptyDict
    /\ invoices = <<>>
    /\ invoice_entries_list = <<>>
    /\ inv_list = <<>>
    /\ k = 1
    /\ meters_invoice_summary = EmptyDict
    /\ last = [op |-> "none", raised |-> FALSE]
    /\ readings = EmptyDict
    /\ step5 = "none"

CycleInit ==
    /\ data = <<>>
    /\ NoCycle

\* ------------------------------------------------------------------------
\* The entities' native_value
\* ------------------------------------------------------------------------
Value(v) == [raised |-> FALSE, value |-> v]
\* AttributeError: 'NoneType' object has no attribute 'get'
AttributeError == [raised |-> TRUE, value |-> None]

\* `coordinator.data.get(name, {}) if coordinator.data else {}`
DataDict(d, name) == IF d # <<>> THEN d[1][name] ELSE EmptyDict

\* EkartotekaMeterSensor.native_value:
\*   meters.get((apartment_id, sensor_id)).get("value", None)
MeterNativeValue(d, key) ==
    IF key \in DOMAIN DataDict(d, "meters")
    THEN Value(Get(DataDict(d, "meters")[key], "value"))
    ELSE AttributeError

\* `coordinator.data.get(name, {}).get(key, None) if coordinator.data else {}`
\* followed by value.get(field, None)
LookupField(d, name, key, field) ==
    IF d = <<>>
    THEN Value(None)
    ELSE IF key \in DOMAIN d[1][name]
         THEN Value(Get(d[1][name][key], field))
         ELSE AttributeError

\* EkartotekaRentInvoiceEntry.native_value
InvoiceEntryNativeValue(d, name) == LookupField(d, "last_invoice", name, "Nalicz")
\* EkartotekaInvoiceSummarySensor.native_value
SummaryNativeValue(d, id) ==
    LookupField(d, "meters_invoice_summary", id, "WynikRozliczenia")
\* EkartotekaMeterSensorCost.native_value
MeterCostNativeValue(d, id) == LookupField(d, "meters_invoice_summary", id, "cost")

\* the host reads the state of an entity
ReadMeter(key) ==
    /\ shown' = [kind |-> "meter", present |-> key \in DOMAIN DataDict(data, "meters"),
                 got |-> MeterNativeValue(data, key)]
    /\ UNCHANGED <<apiVars, cycleVars, setupVars, unitVars, serverVars>>

ReadInvoiceEntry(name) ==
    /\ shown' = [kind |-> "invoice entry",
                 present |-> name \in DOMAIN DataDict(data, "last_invoice"),
                 got |-> InvoiceEntryNativeValue(data, name)]
    /\ UNCHANGED <<apiVars, cycleVars, setupVars, unitVars, serverVars>>

ReadSummary(id) ==
    /\ shown' = [kind |-> "summary",
                 present |-> id \in DOMAIN DataDict(data, "meters_invoice_summary"),
                 got |-> SummaryNativeValue(data, id)]
    /\ UNCHANGED <<apiVars, cycleVars, setupVars, unitVars, serverVars>>

ReadMeterCost(id) ==
    /\ shown' = [kind |-> "meter cost",
                 present |-> id \in DOMAIN DataDict(data, "meters_invoice_summary"),
                 got |-> MeterCostNativeValue(data, id)]
    /\ UNCHANGED <<apiVars, cycleVars, setupVars, unitVars, serverVars>>

NotShown == [kind |-> "none", present |-> FALSE, got |-> Value(None)]

\* ------------------------------------------------------------------------
\* Setup: async_setup_entry and _async_build_entities_for_house
\* ------------------------------------------------------------------------
HouseId(p) == 100 + p
HouseLists == IdLists(MaxHouses, HouseId(0))

\* An entity, reduced to its class and what its constructor is given: the
\* coordinator (by its house), the sensor id, the apartment id, the entry name.
\* The lists of entities are modelled as sets: the order they are built in
\* (dict order) plays no part in what the host is given.
Entity(kind, hid, id, apt, name) ==
    [kind |-> kind, house |-> hid, sensor_id |-> id, apartment_id |-> apt, name |-> name]

\* for meter in meters_info: if meter.get("id_el_op", None): two entities
SummaryEntities(hid, meters_info) ==
    UNION {{Entity("summary", hid, Get(meters_info[n], "id_el_op"), None, ""),
            Entity("cost", hid, Get(meters_info[n], "id_el_op"), None, "")} :
              n \in {m \in DOMAIN meters_info :
                        Get(meters_info[m], "id_el_op") \notin {None, 0}}}

\* for entry_name, entry in coordinator.data.get("last_invoice", {}).items()
InvoiceEntities(hid, d) ==
    {Entity("invoice", hid, None, Get(d.last_invoice[n], "apartment_id"), n) :
        n \in DOMAIN d.last_invoice}

\* sensor_meta_by_id: the ids of the sensor entries that have one;
\* for (apt_id, sensor_id) in meters: an entity when the sensor has meta
MeterEntities(hid, d, sens) ==
    LET sensor_meta_by_id == {sens[n] : n \in DOMAIN sens} \ {None}
    IN {Entity("meter", hid, key[2], key[1], "") :
           key \in {x \in DOMAIN d.meters : x[2] \in sensor_meta_by_id}}

\* `return entities` of the build, then `all_entities.extend(entities)` and
\* the next house of the loop
EndBuild(ents, outcome) ==
    /\ all_entities' = all_entities \cup ents
    /\ built' = Append(built, [outcome |-> outcome, entities |-> ents])
    /\ entities' = {}
    /\ house' = house + 1
    /\ spc' = "house"
    /\ UNCHANGED <<houses, registered>>

\* houses = await api.houseList(): on an exception, or on an empty list, the
\* setup logs and returns
SetupHouses(r) ==
    /\ spc = "houses"
    /\ IF r.raised \/ r.results = <<>>
       THEN spc' = "end" /\ UNCHANGED houses
       ELSE spc' = "house" /\ houses' = r.results
    /\ UNCHANGED <<house, entities, all_entities, registered, built, cycleVars>>

\* the build of a house begins: a house without IdADo is skipped; otherwise
\* its coordinator is constructed and its first refresh starts
BuildStart ==
    /\ spc = "house"
    /\ house <= Len(houses)
    /\ IF houses[house] = None
       THEN /\ EndBuild({}, "skipped")
            /\ UNCHANGED cycleVars
       ELSE /\ spc' = "refresh"
            /\ data' = <<>>
            /\ cpc' = "apartments"
            /\ NoLocals
            /\ last' = [op |-> "none", raised |-> FALSE]
            /\ UNCHANGED <<houses, house, entities, all_entities, registered, built>>

\* BuildRefreshed that does not await the first refresh: the build goes on to
\* its lookups while the refresh it started is still running
BuildRefreshedNoAwait ==
    /\ spc = "refresh"
    /\ spc' = "summary"
    /\ UNCHANGED <<houses, house, entities, all_entities, registered, built, cycleVars>>

\* await coordinator.async_config_entry_first_refresh() is over: a failed
\* refresh raises here, into the except of the build (the cycle's frame is
\* gone by now, the model forgets its locals)
BuildRefreshed ==
    /\ spc = "refresh"
    /\ cpc \in {"done", "failed"}
    /\ IF cpc = "failed"
       THEN EndBuild(entities, "raised")
       ELSE /\ spc' = "summary"
            /\ UNCHANGED <<houses, house, entities, all_entities, registered, built>>
    /\ NoLocals
    /\ last' = [op |-> "none", raised |-> FALSE]
    /\ UNCHANGED <<data, cpc>>

\* meters_info = await api.houseAnalysisSummary(house_id): the summary and
\* cost entities, then the invoice entry entities from coordinator.data
BuildSummary(r) ==
    /\ spc = "summary"
    /\ IF r.raised
       THEN EndBuild(entities, "raised")
       ELSE /\ entities' = entities \cup SummaryEntities(houses[house], r.results)
                                    \cup InvoiceEntities(houses[house], data[1])
            /\ spc' = "sensorlist"
            /\ UNCHANGED <<houses, house, all_entities, registered, built>>
    /\ UNCHANGED cycleVars

\* sensors = await api.houseSensorList(house_id): the meter entities; the
\* build returns its entities, and so does its except
BuildSensorList(r) ==
    /\ spc = "sensorlist"
    /\ IF r.raised
       THEN EndBuild(entities, "raised")
       ELSE EndBuild(entities \cup MeterEntities(houses[house], data[1], r.results), "ok")
    /\ UNCHANGED cycleVars

\* the loop over the houses is over: if all_entities: async_add_entities(all_entities)
Register ==
    /\ spc = "house"
    /\ house > Len(houses)
    /\ registered' = IF all_entities # {} THEN <<all_entities>> ELSE registered
    /\ spc' = "end"
    /\ UNCHANGED <<houses, house, entities, all_entities, built, cycleVars>>

\* The recurring refresh of the coordinator (update_interval=SCAN_INTERVAL):
\* the host runs it, one at a time, for a coordinator that entities listen to,
\* that is once the setup has handed the entities to async_add_entities.
ScheduledRefresh ==
    /\ spc = "end"
    /\ registered # <<>>
    /\ StartCycle
    /\ UNCHANGED setupVars

\* async_setup_entry is entered: the client is built, api.houseList is awaited
SetupInit ==
    /\ spc = "houses"
    /\ houses = <<>>
    /\ house = 1
    /\ entities = {}
    /\ all_entities = {}
    /\ registered = <<>>
    /\ built = <<>>

\* ------------------------------------------------------------------------
\* The unit of a meter entity: sensor_meta_by_id[...]["unit"] of the setup and
\* EkartotekaBaseEntity._apply_unit_mapping. A string is the sequence of its
\* characters.
\* ------------------------------------------------------------------------
Chars == {"m", "3", "G", "J", " "}
Strings(n) == UNION {[1..m -> Chars] : m \in 0..n}
\* what the server can send as "jm": nothing (None) or a string
UnitCodes == {<<>>} \cup {<<s>> : s \in Strings(MaxUnitLen)}

\* UnitOfVolume.CUBIC_METERS and UnitOfEnergy.GIGA_JOULE
CUBIC_METERS == <<"m", "^3">>
GIGA_JOULE == <<"G", "J">>
\* SensorEntity's default device class
NoDeviceClass == "none"

\* str.strip(): leading and trailing whitespace removed
RECURSIVE LStrip(_)
LStrip(s) == IF s # <<>> /\ Head(s) = " " THEN LStrip(Tail(s)) ELSE s
RECURSIVE RStrip(_)
RStrip(s) == IF s # <<>> /\ s[Len(s)] = " " THEN RStrip(SubSeq(s, 1, Len(s) - 1)) ELSE s
Strip(s) == RStrip(LStrip(s))

\* `x or ""` on a string or None
OrEmpty(x) == IF x = <<>> THEN <<>> ELSE x[1]

\* sensor_meta_by_id: "unit": (s.get("jm") or "").strip()
SensorMetaUnit ==
    /\ upc = "meta"
    /\ unit' = <<Strip(OrEmpty(jm))>>
    /\ upc' = "entity"
    /\ UNCHANGED <<jm, device_class, native_unit>>

\* ApplyUnitMapping without `or None`: an empty code becomes the label ""
ApplyUnitMappingKeepEmpty ==
    /\ upc = "entity"
    /\ LET u == Strip(OrEmpty(unit))
       IN IF u = <<"m", "3">>
          THEN device_class' = "water" /\ native_unit' = <<CUBIC_METERS>>
          ELSE IF u = <<"G", "J">>
               THEN device_class' = "energy" /\ native_unit' = <<GIGA_JOULE>>
               ELSE /\ native_unit' = <<u>>
                    /\ UNCHANGED device_class
    /\ upc' = "done"
    /\ UNCHANGED <<jm, unit>>

\* EkartotekaMeterSensor(unit=meta.get("unit", "")): _apply_unit_mapping(unit)
ApplyUnitMapping ==
    /\ upc = "entity"
    /\ LET u == Strip(OrEmpty(unit))
       IN IF u = <<"m", "3">>
          THEN device_class' = "water" /\ native_unit' = <<CUBIC_METERS>>
          ELSE IF u = <<"G", "J">>
               THEN device_class' = "energy" /\ native_unit' = <<GIGA_JOULE>>
               ELSE /\ native_unit' = IF u # <<>> THEN <<u>> ELSE <<>>
                    /\ UNCHANGED device_class
    /\ upc' = "done"
    /\ UNCHANGED <<jm, unit>>

\* no sensor entry read yet, no entity
NoUnit ==
    /\ unit = <<>>
    /\ upc = "meta"
    /\ device_class = NoDeviceClass
    /\ native_unit = <<>>

UnitInit ==
    /\ jm = <<>>
    /\ NoUnit

\* no call of the client has been made yet
NoCalls ==
    /\ stack = [t \in Threads |-> <<>>]
    /\ ret = [t \in Threads |-> NoBody]
    /\ result = [t \in Threads |-> "idle"]
    /\ opname = [t \in Threads |-> "none"]
    /\ value = [t \in Threads |-> "none"]
    /\ nreq = [t \in Threads |-> 0]
    /\ absent = [t \in Threads |-> {}]
    /\ prevLoginOk = [t \in Threads |-> FALSE]

\* eKartotekaAPI.__init__
ApiInit ==
    /\ auth_token = 0
    /\ token = 0
    /\ id_kli = None
    /\ id_gru = None
    /\ NoCalls

vars == <<apiVars, cycleVars, shown, setupVars, unitVars, serverVars>>

\* the client, the coordinator and the entities after construction
Init ==
    /\ ApiInit
    /\ CycleInit
    /\ shown = NotShown
    /\ SetupInit
    /\ UnitInit
    /\ server = AnyServer

\* One caller at a time uses the client: thread 1 runs login() and data-fetch
\* operations one after the other against a server that may answer anything.
NextApi ==
    \/ \E op \in {"login", "fetch"} : StartCall(1, op) /\ UNCHANGED <<cycleVars, shown, setupVars, unitVars, serverVars>>
    \/ ApiStep(1) /\ UNCHANGED <<cycleVars, shown, setupVars, unitVars, serverVars>>

SpecApi == Init /\ [][NextApi]_vars

\* Two worker threads run one data-fetch operation each on the one client,
\* their steps interleaved; the client is new, or it has logged in before (the
\* setup's houseList); the service is the well-behaved one and may expire a
\* token at any moment.
RaceInit ==
    /\ \/ auth_token = 0 /\ token = 0 /\ id_kli = None /\ id_gru = None
       \/ auth_token = 1 /\ token = 1 /\ id_kli = 7 /\ id_gru = 3
    /\ NoCalls
    /\ CycleInit
    /\ shown = NotShown
    /\ SetupInit
    /\ UnitInit
    /\ server = HonestServer

NextRace ==
    \/ \E t \in Threads : (result[t] = "idle" /\ StartCall(t, "fetch")) /\ UNCHANGED <<cycleVars, shown, setupVars, unitVars, serverVars>>
    \/ \E t \in Threads : ApiStep(t) /\ UNCHANGED <<cycleVars, shown, setupVars, unitVars, serverVars>>
    \/ \E tk \in Tokens : Expire(tk) /\ UNCHANGED <<apiVars, cycleVars, shown, setupVars, unitVars>>

SpecRace == RaceInit /\ [][NextRace]_vars

\* The first refresh of a house, from setup to the snapshot or the failure.
NextCycle ==
    \/ (cpc = "idle" /\ StartCycle) /\ UNCHANGED <<apiVars, shown, setupVars, unitVars, serverVars>>
    \/ \E r \in ApiResults(AptLists) : FetchApartments(r) /\ UNCHANGED <<apiVars, shown, setupVars, unitVars, serverVars>>
    \/ \E r \in ApiResults(SensorLists) : FetchSensors(r) /\ UNCHANGED <<apiVars, shown, setupVars, unitVars, serverVars>>
    \/ AptLoop /\ UNCHANGED <<apiVars, shown, setupVars, unitVars, serverVars>>
    \/ SensorLoop /\ UNCHANGED <<apiVars, shown, setupVars, unitVars, serverVars>>
    \/ \E r \in ApiResults(ReadingLists) : FetchValue(r) /\ UNCHANGED <<apiVars, shown, setupVars, unitVars, serverVars>>
    \/ \E r \in ApiResults(PeriodLists) : FetchInvoices(r) /\ UNCHANGED <<apiVars, shown, setupVars, unitVars, serverVars>>
    \/ \E r \in ApiResults(InvoiceEntryLists) : FetchDetails(r) /\ UNCHANGED <<apiVars, shown, setupVars, unitVars, serverVars>>
    \/ \E r \in ApiResults(RowLists) : FetchSummary(r) /\ UNCHANGED <<apiVars, shown, setupVars, unitVars, serverVars>>
    \/ CostKeyError /\ UNCHANGED <<apiVars, shown, setupVars, unitVars, serverVars>>
    \/ \E r \in ApiResults(CostLists) : FetchCost(r) /\ UNCHANGED <<apiVars, shown, setupVars, unitVars, serverVars>>
    \/ ReturnSnapshot /\ UNCHANGED <<apiVars, shown, setupVars, unitVars, serverVars>>

SpecCycle == Init /\ [][NextCycle]_vars

\* The house's refreshes one after the other, as the scheduler runs them, on
\* a house of at most one apartment, one sensor and one summary row.
Short(lists) == {l \in lists : Len(l) <= 1}

NextRefresh ==
    \/ StartCycle /\ UNCHANGED <<apiVars, shown, setupVars, unitVars, serverVars>>
    \/ \E r \in ApiResults(Short(AptLists)) : FetchApartments(r) /\ UNCHANGED <<apiVars, shown, setupVars, unitVars, serverVars>>
    \/ \E r \in ApiResults(Short(SensorLists)) : FetchSensors(r) /\ UNCHANGED <<apiVars, shown, setupVars, unitVars, serverVars>>
    \/ AptLoop /\ UNCHANGED <<apiVars, shown, setupVars, unitVars, serverVars>>
    \/ SensorLoop /\ UNCHANGED <<apiVars, shown, setupVars, unitVars, serverVars>>
    \/ \E r \in ApiResults(ReadingLists) : FetchValue(r) /\ UNCHANGED <<apiVars, shown, setupVars, unitVars, serverVars>>
    \/ \E r \in ApiResults(PeriodLists) : FetchInvoices(r) /\ UNCHANGED <<apiVars, shown, setupVars, unitVars, serverVars>>
    \/ \E r \in ApiResults(InvoiceEntryLists) : FetchDetails(r) /\ UNCHANGED <<apiVars, shown, setupVars, unitVars, serverVars>>
    \/ \E r \in ApiResults(Short(RowLists)) : FetchSummary(r) /\ UNCHANGED <<apiVars, shown, setupVars, unitVars, serverVars>>
    \/ CostKeyError /\ UNCHANGED <<apiVars, shown, setupVars, unitVars, serverVars>>
    \/ \E r \in ApiResults(CostLists) : FetchCost(r) /\ UNCHANGED <<apiVars, shown, setupVars, unitVars, serverVars>>
    \/ ReturnSnapshot /\ UNCHANGED <<apiVars, shown, setupVars, unitVars, serverVars>>

SpecRefresh == Init /\ [][NextRefresh]_vars

\* The first refresh of a house of at most one sensor and one summary row,
\* whose apartments have invoices of different periods and amounts.
NextInvoices ==
    \/ (cpc = "idle" /\ StartCycle) /\ UNCHANGED <<apiVars, shown, setupVars, unitVars, serverVars>>
    \/ \E r \in ApiResults(AptLists) : FetchApartments(r) /\ UNCHANGED <<apiVars, shown, setupVars, unitVars, serverVars>>
    \/ \E r \in ApiResults(Short(SensorLists)) : FetchSensors(r) /\ UNCHANGED <<apiVars, shown, setupVars, unitVars, serverVars>>
    \/ AptLoop /\ UNCHANGED <<apiVars, shown, setupVars, unitVars, serverVars>>
    \/ SensorLoop /\ UNCHANGED <<apiVars, shown, setupVars, unitVars, serverVars>>
    \/ \E r \in ApiResults(ReadingLists) : FetchValue(r) /\ UNCHANGED <<apiVars, shown, setupVars, unitVars, serverVars>>
    \/ \E r \in ApiResults(PeriodListsTwo) : FetchInvoices(r) /\ UNCHANGED <<apiVars, shown, setupVars, unitVars, serverVars>>
    \/ \E r \in ApiResults(InvoiceEntryListsTwo) : FetchDetails(r) /\ UNCHANGED <<apiVars, shown, setupVars, unitVars, serverVars>>
    \/ \E r \in ApiResults(Short(RowLists)) : FetchSummary(r) /\ UNCHANGED <<apiVars, shown, setupVars, unitVars, serverVars>>
    \/ CostKeyError /\ UNCHANGED <<apiVars, shown, setupVars, unitVars, serverVars>>
    \/ \E r \in ApiResults(CostLists) : FetchCost(r) /\ UNCHANGED <<apiVars, shown, setupVars, unitVars, serverVars>>
    \/ ReturnSnapshot /\ UNCHANGED <<apiVars, shown, setupVars, unitVars, serverVars>>

SpecInvoices == Init /\ [][NextInvoices]_vars

\* The setup of the platform: the houses are listed and built one after the
\* other, each with the first refresh of its coordinator, on houses of at most
\* one apartment, one sensor and one summary row.
NextSetup ==
    \/ \E r \in ApiResults(HouseLists) : SetupHouses(r) /\ UNCHANGED <<apiVars, shown, unitVars, serverVars>>
    \/ BuildStart /\ UNCHANGED <<apiVars, shown, unitVars, serverVars>>
    \/ \E r \in ApiResults(Short(AptLists)) : FetchApartments(r) /\ UNCHANGED <<apiVars, shown, setupVars, unitVars, serverVars>>
    \/ \E r \in ApiResults(Short(SensorLists)) : FetchSensors(r) /\ UNCHANGED <<apiVars, shown, setupVars, unitVars, serverVars>>
    \/ AptLoop /\ UNCHANGED <<apiVars, shown, setupVars, unitVars, serverVars>>
    \/ SensorLoop /\ UNCHANGED <<apiVars, shown, setupVars, unitVars, serverVars>>
    \/ \E r \in ApiResults(ReadingLists) : FetchValue(r) /\ UNCHANGED <<apiVars, shown, setupVars, unitVars, serverVars>>
    \/ \E r \in ApiResults(PeriodLists) : FetchInvoices(r) /\ UNCHANGED <<apiVars, shown, setupVars, unitVars, serverVars>>
    \/ \E r \in ApiResults(InvoiceEntryLists) : FetchDetails(r) /\ UNCHANGED <<apiVars, shown, setupVars, unitVars, serverVars>>
    \/ \E r \in ApiResults(Short(RowLists)) : FetchSummary(r) /\ UNCHANGED <<apiVars, shown, setupVars, unitVars, serverVars>>
    \/ CostKeyError /\ UNCHANGED <<apiVars, shown, setupVars, unitVars, serverVars>>
    \/ \E r \in ApiResults(CostLists) : FetchCost(r) /\ UNCHANGED <<apiVars, shown, setupVars, unitVars, serverVars>>
    \/ ReturnSnapshot /\ UNCHANGED <<apiVars, shown, setupVars, unitVars, serverVars>>
    \/ BuildRefreshed /\ UNCHANGED <<apiVars, shown, unitVars, serverVars>>
    \/ \E r \in ApiResults(Short(RowLists)) : BuildSummary(r) /\ UNCHANGED <<apiVars, shown, unitVars, serverVars>>
    \/ \E r \in ApiResults(Short(SensorLists)) : BuildSensorList(r) /\ UNCHANGED <<apiVars, shown, unitVars, serverVars>>
    \/ Register /\ UNCHANGED <<apiVars, shown, unitVars, serverVars>>

SpecSetup == Init /\ [][NextSetup]_vars

\* The setup of an account with one house, and the refreshes the host
\* schedules for the house afterwards.
NextHouse ==
    \/ \E r \in ApiResults(Short(HouseLists)) : SetupHouses(r) /\ UNCHANGED <<apiVars, shown, unitVars, serverVars>>
    \/ BuildStart /\ UNCHANGED <<apiVars, shown, unitVars, serverVars>>
    \/ \E r \in ApiResults(Short(AptLists)) : FetchApartments(r) /\ UNCHANGED <<apiVars, shown, setupVars, unitVars, serverVars>>
    \/ \E r \in ApiResults(Short(SensorLists)) : FetchSensors(r) /\ UNCHANGED <<apiVars, shown, setupVars, unitVars, serverVars>>
    \/ AptLoop /\ UNCHANGED <<apiVars, shown, setupVars, unitVars, serverVars>>
    \/ SensorLoop /\ UNCHANGED <<apiVars, shown, setupVars, unitVars, serverVars>>
    \/ \E r \in ApiResults(ReadingLists) : FetchValue(r) /\ UNCHANGED <<apiVars, shown, setupVars, unitVars, serverVars>>
    \/ \E r \in ApiResults(PeriodLists) : FetchInvoices(r) /\ UNCHANGED <<apiVars, shown, setupVars, unitVars, serverVars>>
    \/ \E r \in ApiResults(InvoiceEntryLists) : FetchDetails(r) /\ UNCHANGED <<apiVars, shown, setupVars, unitVars, serverVars>>
    \/ \E r \in ApiResults(Short(RowLists)) : FetchSummary(r) /\ UNCHANGED <<apiVars, shown, setupVars, unitVars, serverVars>>
    \/ CostKeyError /\ UNCHANGED <<apiVars, shown, setupVars, unitVars, serverVars>>
    \/ \E r \in ApiResults(CostLists) : FetchCost(r) /\ UNCHANGED <<apiVars, shown, setupVars, unitVars, serverVars>>
    \/ ReturnSnapshot /\ UNCHANGED <<apiVars, shown, setupVars, unitVars, serverVars>>
    \/ BuildRefreshed /\ UNCHANGED <<apiVars, shown, unitVars, serverVars>>
    \/ \E r \in ApiResults(Short(RowLists)) : BuildSummary(r) /\ UNCHANGED <<apiVars, shown, unitVars, serverVars>>
    \/ \E r \in ApiResults(Short(SensorLists)) : BuildSensorList(r) /\ UNCHANGED <<apiVars, shown, unitVars, serverVars>>
    \/ Register /\ UNCHANGED <<apiVars, shown, unitVars, serverVars>>
    \/ ScheduledRefresh /\ UNCHANGED <<apiVars, shown, unitVars, serverVars>>

SpecHouse == Init /\ [][NextHouse]_vars

\* A meter entity is built for a sensor entry whose "jm" is any unit code.
UnitSpecInit ==
    /\ ApiInit
    /\ CycleInit
    /\ shown = NotShown
    /\ SetupInit
    /\ jm \in UnitCodes
    /\ NoUnit
    /\ server = AnyServer

NextUnit ==
    \/ SensorMetaUnit /\ UNCHANGED <<apiVars, cycleVars, shown, setupVars, serverVars>>
    \/ ApplyUnitMapping /\ UNCHANGED <<apiVars, cycleVars, shown, setupVars, serverVars>>

SpecUnit == UnitSpecInit /\ [][NextUnit]_vars

\* The entities of a house read their values from whatever snapshot the
\* coordinator holds: none, or one of a house of at most one apartment, one
\* sensor, two line items and one summary row.
ViewSnapshots ==
    {<<>>} \cup
    {<<[meters_invoice_summary |-> ms, meters |-> m, last_invoice |-> li]>> :
        ms \in {EmptyDict, Put(EmptyDict, SensorId(1), Row(1)),
                Put(EmptyDict, SensorId(1), Put(Row(1), "cost", Cost.zuzycieFaktyczne))},
        m \in {EmptyDict} \cup
              {Put(EmptyDict, <<AptId(1), SensorId(1)>>, Reading(l)) : l \in ReadingLists},
        li \in {IndexEntries(EmptyDict, l, P1, AptId(1)) : l \in InvoiceEntryLists}}

ViewInit ==
    /\ ApiInit
    /\ NoCycle
    /\ data \in ViewSnapshots
    /\ shown = NotShown
    /\ SetupInit
    /\ UnitInit
    /\ server = AnyServer

NextView ==
    \/ ReadMeter(<<AptId(1), SensorId(1)>>)
    \/ \E name \in {"rent", "water"} : ReadInvoiceEntry(name)
    \/ ReadSummary(SensorId(1))
    \/ ReadMeterCost(SensorId(1))

SpecView == ViewInit /\ [][NextView]_vars

\* ========================================================================
\* Properties of the API client
\* ========================================================================
client == <<auth_token, token, id_kli, id_gru>>

\* re-logins of thread t that are in progress: _get frames waiting for the
\* login() they called after a 401
ReloginDepth(t) ==
    Cardinality({n \in 1..Len(stack[t]) :
                    stack[t][n].fn = "get" /\ stack[t][n].pc = "retry"})

\* C1: on 401 _get clears both tokens and calls login(); the retry is sent
\* once, with the header built from the token login() has just stored; a 200
\* on the retry returns that response's body to the caller; a 401 on the retry
\* raises without another request.
C1_RetryOnce ==
    [][\A t \in Threads :
        /\ (Running(t, "get", "check") /\ Top(t).status = 401) =>
              /\ auth_token' = 0
              /\ token' = 0
              /\ nreq' = nreq
              /\ Len(stack[t]) < MaxStack =>
                    /\ Len(stack'[t]) = Len(stack[t]) + 1
                    /\ stack'[t][Len(stack'[t])].fn = "login"
                    /\ stack'[t][Len(stack[t])].pc = "retry"
        /\ Running(t, "get", "final") =>
              /\ Top(t).sends = 2
              /\ Top(t).hdr = BearerToken(Top(t).acc)
              /\ Top(t).hdr # 0
              /\ nreq' = nreq
              /\ Top(t).status = 200 =>
                    /\ stack'[t] = Pop(stack[t])
                    /\ ret'[t] = Top(t).body
                    /\ result'[t] = IF Len(stack[t]) = 1 THEN "ok" ELSE "running"
              /\ Top(t).status # 200 =>
                    /\ stack'[t] = <<>>
                    /\ result'[t] = "raise"
    ]_vars

\* C1 witness: a data GET was answered 401, login() re-ran, and the retried
\* request came back 200
C1_Witness ==
    /\ Running(1, "get", "final")
    /\ Top(1).url = "data"
    /\ Top(1).status = 200
    /\ Top(1).sends = 2
    /\ Len(stack[1]) = 2

\* C2: login() with both tokens present sends nothing, changes no field of
\* the client and returns; so a login() that follows a login() that returned
\* finishes without a single request.
C2_LoginIdempotent ==
    /\ [](\A t \in Threads :
            (opname[t] = "login" /\ prevLoginOk[t] /\ result[t] # "idle") =>
                (nreq[t] = 0 /\ result[t] \in {"running", "ok"}))
    /\ [][\A t \in Threads :
            (Running(t, "login", "check") /\ token # 0 /\ auth_token # 0) =>
                /\ nreq' = nreq
                /\ client' = client
                /\ stack'[t] = Pop(stack[t])
                /\ result'[t] = IF Len(stack[t]) = 1 THEN "ok" ELSE result[t]
       ]_vars

\* C2 witness: the second of two login() calls in a row has returned
C2_Witness ==
    /\ opname[1] = "login"
    /\ prevLoginOk[1]
    /\ result[1] = "ok"
    /\ nreq[1] = 0
    /\ token # 0
    /\ auth_token # 0

\* C3: no retry beyond the single 401-triggered re-login + retry: while a
\* re-login of a call is in progress, no second re-login is started in it.
C3_SingleRelogin == \A t \in Threads : ReloginDepth(t) <= 1

\* C7: login() does not return when a response it used lacked an expected
\* field (auth token, account id, account token, id_kli, IdGru), a list was
\* empty, or a step ended with a status other than 200.
C7_LoginFailsOnAbsent ==
    \A t \in Threads :
        (opname[t] = "login" /\ result[t] = "ok") => absent[t] = {}

\* ========================================================================
\* Properties of the refresh cycle
\* ========================================================================
\* the identifiers the entries of a list carry
Ids(l) == {l[n] : n \in DOMAIN l} \ {None}

\* the API calls of steps 1-4, outside the inner try
OuterCalls == {"apartmentList", "houseSensorList", "houseSensorValue",
               "houseInvoicesList", "invoiceDetails"}

\* C4: coordinator.data changes only in the step that ends a cycle with its
\* return, and then to the whole dict of that cycle; a call of steps 1-4 that
\* raises fails the cycle, and a cycle that fails leaves coordinator.data as
\* it was (None on the first refresh).
C4_SnapshotAtomic ==
    [][/\ data' # data =>
             /\ cpc = "return"
             /\ cpc' = "done"
             /\ data' = <<[meters_invoice_summary |-> meters_invoice_summary,
                           meters |-> meters, last_invoice |-> last_invoice]>>
       /\ (last' # last /\ last'.raised /\ last'.op \in OuterCalls) => cpc' = "failed"
       /\ cpc' = "failed" => data' = data
      ]_vars

\* C4 witness: a refresh failed after an earlier one had published a snapshot
\* with a reading in it, which is still the one the entities see
C4_Witness ==
    /\ cpc = "failed"
    /\ data # <<>>
    /\ data[1].meters # EmptyDict

\* C5: reading a projection's value never raises, whatever the snapshot.
C5_ProjectionNeverRaises == ~ shown.got.raised

\* C6: from step 5 on the cycle cannot fail and the meters and last-invoice
\* dicts of steps 1-4 do not change; the cycle returns them in its snapshot,
\* with an empty summary when the summary fetch raised.
C6Step ==
    cpc \in {"summary", "cost", "return"} =>
        /\ cpc' \in {"cost", "return", "done"}
        /\ meters' = meters
        /\ last_invoice' = last_invoice
        /\ cpc' = "done" =>
              /\ data' # <<>>
              /\ data'[1].meters = meters
              /\ data'[1].last_invoice = last_invoice
              /\ data'[1].meters_invoice_summary = meters_invoice_summary

C6_Step5Contained ==
    /\ [][C6Step]_vars
    /\ []((step5 = "summary raised" /\ cpc \in {"return", "done"}) =>
             meters_invoice_summary = EmptyDict)
    /\ []((step5 # "none" /\ cpc # "done") => cpc = "return")

\* C6 witness: the summary fetch raised and the cycle returned a snapshot that
\* holds a reading and an invoice entry
C6_Witness ==
    /\ cpc = "done"
    /\ step5 = "summary raised"
    /\ data[1].meters # EmptyDict
    /\ data[1].last_invoice # EmptyDict
    /\ data[1].meters_invoice_summary = EmptyDict

\* C8: after a successful cycle the keys of the snapshot's meters are exactly
\* the pairs of an apartment identifier and a sensor identifier of the lists;
\* the cycle fails only when an API call raised, never on an entry without
\* its identifier.
C8_MeterKeys ==
    /\ cpc = "done" =>
          DOMAIN data[1].meters =
              {<<a, s>> : a \in Ids(apartment_list), s \in Ids(sensors)}
    /\ cpc = "failed" => (last.raised /\ last.op \in OuterCalls)

\* C8 witness: a cycle ended well on lists whose first apartment and first
\* sensor lack their identifiers
C8_Witness ==
    /\ cpc = "done"
    /\ apartment_list = <<None, AptId(2)>>
    /\ sensors = <<None, SensorId(2)>>
    /\ DOMAIN data[1].meters = {<<AptId(2), SensorId(2)>>}

\* C9: the reading stored for a pair has the value, type and date of the first
\* element of the list returned for the pair, and None three times when the
\* list is empty; the step fails the cycle only if the call raised.
C9_FirstReading ==
    [][cpc = "value" =>
          IF last'.raised
          THEN cpc' = "failed"
          ELSE LET key == <<apartment_list[i], sensors[j]>>
                   got == readings'[key]
               IN /\ cpc' = "sensor"
                  /\ DOMAIN meters' = DOMAIN meters \cup {key}
                  /\ \A x \in DOMAIN meters \ {key} : meters'[x] = meters[x]
                  /\ meters'[key] =
                        IF got = <<>>
                        THEN [value |-> None, type |-> None, read_date |-> None]
                        ELSE [value |-> got[1].stan, type |-> got[1].typ,
                              read_date |-> got[1].data]
      ]_vars

\* C9 witness: a snapshot with a reading from a non-empty list and one from
\* an empty list
C9_Witness ==
    /\ cpc = "done"
    /\ \E x, y \in DOMAIN data[1].meters :
          /\ readings[x] = <<>>
          /\ data[1].meters[x].value = None
          /\ readings[y] # <<>>
          /\ data[1].meters[y].value = R1.stan

\* C10: when the period list of an apartment is empty, or its first period
\* has no IdNal, the cycle goes on to the next apartment: no details request,
\* last_invoice as it was, no failure.
C10_NoInvoice ==
    [][(/\ cpc = "invoices"
        /\ ~ last'.raised
        /\ \/ invoices' = <<>>
           \/ "IdNal" \notin DOMAIN invoices'[1]) =>
            /\ cpc' = "apt"
            /\ i' = i + 1
            /\ last_invoice' = last_invoice
      ]_vars

\* C10 witness: the second apartment's period list came back empty after the
\* first apartment's invoice had been indexed
C10_Witness ==
    /\ cpc = "apt"
    /\ i = 3
    /\ last.op = "houseInvoicesList"
    /\ invoices = <<>>
    /\ last_invoice # EmptyDict

\* ========================================================================
\* Properties of the setup
\* ========================================================================
\* the entities handed to the host
Registered == IF registered = <<>> THEN {} ELSE registered[1]

\* C11: when the setup is over, every house of the list has been built; a
\* house without IdADo and a house whose build raised have no entity among
\* those handed to the host, and every entity of a house whose build went
\* through is among them.
C11_FailedHouseContributesNothing ==
    (spc = "end" /\ houses # <<>>) =>
        /\ Len(built) = Len(houses)
        /\ \A n \in DOMAIN built :
              IF built[n].outcome = "ok"
              THEN built[n].entities \subseteq Registered
              ELSE \A e \in Registered : e.house # houses[n]

\* ========================================================================
\* Properties of the unit mapping
\* ========================================================================
\* C12 as stated: the code "m3" gives device class water and cubic meters,
\* "GJ" gives energy and gigajoules, an empty or null code gives no unit, and
\* every other string is itself the unit label, unchanged.
C12_UnitMapping ==
    upc = "done" =>
        IF jm = <<>> \/ jm[1] = <<>>
        THEN native_unit = <<>>
        ELSE IF jm[1] = <<"m", "3">>
             THEN device_class = "water" /\ native_unit = <<CUBIC_METERS>>
             ELSE IF jm[1] = <<"G", "J">>
                  THEN device_class = "energy" /\ native_unit = <<GIGA_JOULE>>
                  ELSE native_unit = <<jm[1]>>

\* lab is code without its leading and trailing spaces
IsStripped(lab, code) ==
    /\ lab # <<>> => (lab[1] # " " /\ lab[Len(lab)] # " ")
    /\ \E a \in 1..(Len(code) + 1), b \in 0..Len(code) :
          /\ lab = SubSeq(code, a, b)
          /\ \A n \in 1..Len(code) : (n < a \/ n > b) => code[n] = " "

\* C12: the mapping applies to the code without its surrounding whitespace (a
\* null code counting as empty): "m3" gives device class water and cubic
\* meters, "GJ" gives energy and gigajoules, an empty code gives no unit, and
\* any other code is the unit label.
C12_UnitMappingStripped ==
    upc = "done" =>
        \E a \in 1..(Len(OrEmpty(jm)) + 1), b \in 0..Len(OrEmpty(jm)) :
            LET lab == SubSeq(OrEmpty(jm), a, b)
            IN /\ IsStripped(lab, OrEmpty(jm))
               /\ IF lab = <<>>
                  THEN native_unit = <<>>
                  ELSE IF lab = <<"m", "3">>
                       THEN device_class = "water" /\ native_unit = <<CUBIC_METERS>>
                       ELSE IF lab = <<"G", "J">>
                            THEN device_class = "energy" /\ native_unit = <<GIGA_JOULE>>
                            ELSE native_unit = <<lab>>

\* C12 witness: a code with whitespace around it has been mapped to its label
C12_Witness ==
    /\ upc = "done"
    /\ jm = << <<" ", "J", " ">> >>
    /\ native_unit = << <<"J">> >>
    /\ device_class = NoDeviceClass

\* the network call the refresh cycle of the house is waiting for, if any
CycleCall ==
    CASE cpc = "apartments" -> {"apartmentList"}
      [] cpc = "sensors" -> {"houseSensorList"}
      [] cpc = "value" -> {"houseSensorValue"}
      [] cpc = "invoices" -> {"houseInvoicesList"}
      [] cpc = "details" -> {"invoiceDetails"}
      [] cpc = "summary" -> {"houseAnalysisSummary"}
      [] cpc = "cost" -> IF "id_el_op" \in DOMAIN inv_list[k] THEN {"houseSensorCost"} ELSE {}
      [] OTHER -> {}

\* the network call the build of the house is waiting for, if any
SetupCall ==
    CASE spc = "summary" -> {"houseAnalysisSummary"}
      [] spc = "sensorlist" -> {"houseSensorList"}
      [] OTHER -> {}

\* C13: at most one network call for a house is in flight at any time: the
\* refresh cycle waits for one call at a time, and while the build waits for
\* its yearly-summary or sensor-list lookup no refresh cycle of the house is
\* running, neither the first refresh nor a scheduled one.
C13_OneCallPerHouse ==
    /\ Cardinality(CycleCall) + Cardinality(SetupCall) <= 1
    /\ SetupCall # {} => cpc = "done"
    /\ cpc \notin {"idle", "done", "failed"} =>
          \/ spc = "refresh"
          \/ spc = "end" /\ registered # <<>>

\* C13 witness: the build waits for its sensor-list lookup, after the first
\* refresh of the house has published its snapshot
C13_Witness ==
    /\ spc = "sensorlist"
    /\ cpc = "done"
    /\ data # <<>>
    /\ entities # {}

\* ========================================================================
\* Properties of steps 4 and 5
\* ========================================================================
\* C14: when step 5 is over and neither the summary fetch nor a cost fetch
\* raised, every summary row with a sensor id is in the yearly summary map
\* under that id, with the fields of the row; this whatever the cost responses
\* held (nothing, or an element without the cost fields) and whether or not
\* other rows lack their sensor id.
C14_RowsIndexed ==
    (cpc = "return" /\ step5 \notin {"summary raised", "cost raised"}) =>
        \A n \in DOMAIN inv_list :
            "id_el_op" \in DOMAIN inv_list[n] =>
                /\ inv_list[n].id_el_op \in DOMAIN meters_invoice_summary
                /\ \A f \in DOMAIN inv_list[n] :
                      meters_invoice_summary[inv_list[n].id_el_op][f] = inv_list[n][f]

\* C15: the line items of an apartment's last invoice are stored under their
\* names alone: each name of the response then maps to this apartment's item
\* (its amount, the period's bounds and paid flag, the apartment id), whatever
\* an earlier apartment had stored under the name, and the other names keep
\* their entries; the snapshot holds that map, one entry per name.
C15Step ==
    (cpc = "details" /\ ~ last'.raised) =>
        LET es == invoice_entries_list'
            names == {es[n].Nazwa : n \in DOMAIN es}
        IN /\ DOMAIN last_invoice' = DOMAIN last_invoice \cup names
           /\ \A nm \in DOMAIN last_invoice' :
                 IF nm \in names
                 THEN \E n \in DOMAIN es :
                         /\ es[n].Nazwa = nm
                         /\ \A m \in DOMAIN es : m > n => es[m].Nazwa # nm
                         /\ last_invoice'[nm] =
                               [Nazwa |-> nm, Nalicz |-> es[n].Nalicz,
                                start_date |-> invoices[1].DataOd,
                                end_date |-> invoices[1].DataDo,
                                paid |-> invoices[1].Stan,
                                apartment_id |-> apartment_list[i]]
                 ELSE last_invoice'[nm] = last_invoice[nm]

C15_LaterApartmentWins ==
    /\ [][C15Step]_vars
    /\ [](cpc = "done" =>
            /\ data[1].last_invoice = last_invoice
            /\ \A nm \in DOMAIN last_invoice : last_invoice[nm].Nazwa = nm)

\* C15 witness: both apartments had a "rent" item; the snapshot's rent is the
\* second apartment's, the water item still the first apartment's
C15_Witness ==
    /\ cpc = "done"
    /\ apartment_list = <<AptId(1), AptId(2)>>
    /\ DOMAIN data[1].last_invoice = {"rent", "water"}
    /\ data[1].last_invoice["water"].apartment_id = AptId(1)
    /\ data[1].last_invoice["water"].start_date = P1.DataOd
    /\ data[1].last_invoice["rent"] =
          [Nazwa |-> "rent", Nalicz |-> Rent2.Nalicz, start_date |-> P2.DataOd,
           end_date |-> P2.DataDo, paid |-> P2.Stan, apartment_id |-> AptId(2)]

\* ========================================================================
\* Properties of the client between and across calls
\* ========================================================================
\* C16: whenever no call of the client is running, tokens that are both set
\* (so that login() returns at once) come with a client id and a group id
\* that are set.
C16_TokensImplyIds ==
    (\A t \in Threads : stack[t] = <<>>) =>
        ((auth_token # 0 /\ token # 0) => (id_kli # None /\ id_gru # None))

\* C17: with two data-fetch operations interleaved on the one client and a
\* service that answers 401 only to an empty or expired token, no operation
\* raises.
C17_BothReturn == \A t \in Threads : result[t] # "raise"

====
